---- MODULE Spec2Model ----
(***************************************************************************)
(* Order / checkout / payment workflow of the e-commerce API.              *)
(*                                                                         *)
(* The database tables are the state: products, carts, cart_items and      *)
(* orders (each order row carries its order_items).  Every service method  *)
(* is an operator that maps the tables db it finds and its arguments to    *)
(* the tables it commits and the HTTP outcome it produces; every action    *)
(* applies one such operator to the current tables, i.e. it is one request *)
(* run to completion.  Money is in integer cents.                          *)
(***************************************************************************)
EXTENDS Integers, Sequences, FiniteSets, TLC

VARIABLES
    products,      \* products table: id -> row
    carts,         \* carts table: sequence of rows, id = index
    cart_items,    \* cart_items table: sequence of rows in insertion order
    orders,        \* orders table: sequence of rows, id = index
    gateway_log,   \* calls answered by the payment gateway, oldest first
    response,      \* outcome of the last request
    request,       \* the request that is part way through its handler
    sessions       \* requests served at the same time: process -> request

vars ==
    <<products, carts, cart_items, orders, gateway_log, response, request,
      sessions>>

-----------------------------------------------------------------------------
(* Bounds of the model *)

MaxOrders == 1
MaxCarts == 1
MaxStock == 3
MaxQty == 2
MaxGatewayCalls == 2
MaxProducts == 3

Users == {1, 2}
Sessions == {1, 2}
Products == {1, 2}

NULL == "NULL"

-----------------------------------------------------------------------------
(* Enumerations *)

OrderStatus == {"pending", "paid", "shipped", "delivered", "cancelled"}

PaymentStatus == {"pending", "processing", "completed", "failed", "refunded"}

\* success_rate of each configured method, in percent
PAYMENT_METHODS ==
    [credit_card |-> 95, debit_card |-> 92, paypal |-> 98,
     bank_transfer |-> 99, crypto |-> 85]

-----------------------------------------------------------------------------
(* Generic helpers *)

RECURSIVE SumSeq(_)
SumSeq(s) == IF s = <<>> THEN 0 ELSE Head(s) + SumSeq(Tail(s))

\* Query.first(): the lowest row id that satisfies Test, 0 when there is none
First(rows, Test(_)) ==
    LET hits == {i \in 1..Len(rows) : Test(rows[i])}
    IN  IF hits = {} THEN 0 ELSE CHOOSE i \in hits : \A j \in hits : i <= j

\* The committed tables, as the next request finds them
State ==
    [products |-> products, carts |-> carts, cart_items |-> cart_items,
     orders |-> orders, gateway_log |-> gateway_log]

\* A handler returns the tables it leaves committed and its HTTP outcome
Ok(db) == [db |-> db, status_code |-> 200, detail |-> "ok"]

Raise(db, status_code, detail) ==
    [db |-> db, status_code |-> status_code, detail |-> detail]

-----------------------------------------------------------------------------
(* Product *)

\* variant: one unit more than the stock can be ordered
can_order_one_more(product, quantity) ==
    product.is_active /\ product.stock_quantity + 1 >= quantity

\* variant: the stock is not looked at
can_order_if_active(product, quantity) == product.is_active

can_order(product, quantity) ==
    product.is_active /\ product.stock_quantity >= quantity

-----------------------------------------------------------------------------
(* Cart and CartItem *)

subtotal(cart_item) == cart_item.quantity * cart_item.unit_price

items(db, cart_id) ==
    SelectSeq(db.cart_items, LAMBDA it : it.cart_id = cart_id)

total_amount(db, cart_id) ==
    LET its == items(db, cart_id)
    IN  SumSeq([i \in 1..Len(its) |-> subtotal(its[i])])

is_empty(db, cart_id) == Len(items(db, cart_id)) = 0

get_cart(db, user_id) == First(db.carts, LAMBDA c : c.user_id = user_id)

\* the tables after the call; the cart is get_cart on them
get_or_create_cart(db, user_id) ==
    IF get_cart(db, user_id) = 0
    THEN [db EXCEPT !.carts = Append(@, [user_id |-> user_id])]
    ELSE db

find_item(db, cart_id, product_id) ==
    First(db.cart_items,
          LAMBDA it : it.cart_id = cart_id /\ it.product_id = product_id)

\* variant: a new cart item is created on every add
add_to_cart_always_new(db, user_id, product_id, quantity) ==
    IF ~(product_id \in DOMAIN db.products
         /\ db.products[product_id].is_active)
    THEN Raise(db, 404, "Product not found or inactive")
    ELSE IF ~can_order(db.products[product_id], quantity)
    THEN Raise(db, 400, "Insufficient stock")
    ELSE
      LET db1     == get_or_create_cart(db, user_id)
          cart_id == get_cart(db1, user_id)
      IN  Ok([db1 EXCEPT !.cart_items =
                 Append(@, [cart_id |-> cart_id,
                            product_id |-> product_id,
                            quantity |-> quantity,
                            unit_price |-> db.products[product_id].price])])

add_to_cart(db, user_id, product_id, quantity) ==
    IF ~(product_id \in DOMAIN db.products
         /\ db.products[product_id].is_active)
    THEN Raise(db, 404, "Product not found or inactive")
    ELSE IF ~can_order(db.products[product_id], quantity)
    THEN Raise(db, 400, "Insufficient stock")
    ELSE
      LET product  == db.products[product_id]
          db1      == get_or_create_cart(db, user_id)
          cart_id  == get_cart(db1, user_id)
          existing == find_item(db1, cart_id, product_id)
      IN  IF existing # 0
          THEN LET new_quantity ==
                       db1.cart_items[existing].quantity + quantity
               IN  IF ~can_order(product, new_quantity)
                   THEN Raise(db1, 400, "Insufficient stock")
                   ELSE Ok([db1 EXCEPT
                            !.cart_items[existing].quantity = new_quantity,
                            !.cart_items[existing].unit_price = product.price])
          ELSE Ok([db1 EXCEPT !.cart_items =
                     Append(@, [cart_id |-> cart_id,
                                product_id |-> product_id,
                                quantity |-> quantity,
                                unit_price |-> product.price])])

remove_from_cart(db, user_id, product_id) ==
    LET cart_id == get_cart(db, user_id)
    IN  IF cart_id = 0 THEN Raise(db, 404, "Cart not found")
        ELSE LET i == find_item(db, cart_id, product_id)
             IN  IF i = 0 THEN Raise(db, 404, "Item not found in cart")
                 ELSE Ok([db EXCEPT !.cart_items =
                            SubSeq(@, 1, i - 1) \o SubSeq(@, i + 1, Len(@))])

\* variant: the quantity is set and the unit price is left as it was
update_cart_item_keep_price(db, user_id, product_id, quantity) ==
    LET cart_id == get_cart(db, user_id)
    IN  IF cart_id = 0 THEN Raise(db, 404, "Cart not found")
        ELSE LET i == find_item(db, cart_id, product_id)
             IN  IF i = 0 THEN Raise(db, 404, "Item not found in cart")
                 ELSE IF ~(product_id \in DOMAIN db.products
                           /\ db.products[product_id].is_active)
                 THEN Raise(db, 404, "Product not found or inactive")
                 ELSE IF ~can_order(db.products[product_id], quantity)
                 THEN Raise(db, 400, "Insufficient stock")
                 ELSE Ok([db EXCEPT !.cart_items[i].quantity = quantity])

update_cart_item(db, user_id, product_id, quantity) ==
    LET cart_id == get_cart(db, user_id)
    IN  IF cart_id = 0 THEN Raise(db, 404, "Cart not found")
        ELSE LET i == find_item(db, cart_id, product_id)
             IN  IF i = 0 THEN Raise(db, 404, "Item not found in cart")
                 ELSE IF ~(product_id \in DOMAIN db.products
                           /\ db.products[product_id].is_active)
                 THEN Raise(db, 404, "Product not found or inactive")
                 ELSE IF ~can_order(db.products[product_id], quantity)
                 THEN Raise(db, 400, "Insufficient stock")
                 ELSE Ok([db EXCEPT
                          !.cart_items[i].quantity = quantity,
                          !.cart_items[i].unit_price =
                              db.products[product_id].price])

\* variant: a cart without items cannot be cleared
clear_cart_rejecting_empty(db, user_id) ==
    LET cart_id == get_cart(db, user_id)
    IN  IF cart_id = 0 \/ is_empty(db, cart_id)
        THEN Raise(db, 404, "Cart not found")
        ELSE Ok([db EXCEPT !.cart_items =
                   SelectSeq(@, LAMBDA it : it.cart_id # cart_id)])

clear_cart(db, user_id) ==
    LET cart_id == get_cart(db, user_id)
    IN  IF cart_id = 0 THEN Raise(db, 404, "Cart not found")
        ELSE Ok([db EXCEPT !.cart_items =
                   SelectSeq(@, LAMBDA it : it.cart_id # cart_id)])

-----------------------------------------------------------------------------
(* Payment gateway (simulated) *)

failure_reasons ==
    <<"Insufficient funds", "Card declined", "Network timeout",
      "Invalid card details", "Payment limit exceeded">>

\* variant: a draw equal to the success rate succeeds as well
PaymentService_process_payment_at_rate(payment_method, amount, draw, n) ==
    LET transaction_id == "txn_" \o ToString(n)
    IN  IF payment_method \notin DOMAIN PAYMENT_METHODS
        THEN [transaction_id |-> transaction_id, status |-> "failed",
              amount |-> amount, message |-> "Unsupported payment method"]
        ELSE IF draw[1] <= PAYMENT_METHODS[payment_method]
        THEN [transaction_id |-> transaction_id, status |-> "completed",
              amount |-> amount,
              message |-> "Payment processed successfully via "
                            \o payment_method]
        ELSE [transaction_id |-> transaction_id, status |-> "failed",
              amount |-> amount,
              message |-> "Payment failed: "
                \o failure_reasons[(draw[2] * Len(failure_reasons)) \div 100
                                     + 1]]

\* draw holds the values of the two calls of random(), in percent: draw[1]
\* decides the outcome, draw[2] picks the failure reason; n is the number
\* of this call, the generated transaction id being fresh for every call.
PaymentService_process_payment(payment_method, amount, draw, n) ==
    LET transaction_id == "txn_" \o ToString(n)
    IN  IF payment_method \notin DOMAIN PAYMENT_METHODS
        THEN [transaction_id |-> transaction_id, status |-> "failed",
              amount |-> amount, message |-> "Unsupported payment method"]
        ELSE IF draw[1] < PAYMENT_METHODS[payment_method]
        THEN [transaction_id |-> transaction_id, status |-> "completed",
              amount |-> amount,
              message |-> "Payment processed successfully via "
                            \o payment_method]
        ELSE [transaction_id |-> transaction_id, status |-> "failed",
              amount |-> amount,
              message |-> "Payment failed: "
                \o failure_reasons[(draw[2] * Len(failure_reasons)) \div 100
                                     + 1]]

\* the details of the 400 answer process_payment gives for a failed payment
PaymentFailedDetail ==
    {"Payment failed: " \o m :
        m \in {"Unsupported payment method"}
              \cup {"Payment failed: " \o failure_reasons[i] :
                        i \in DOMAIN failure_reasons}}

-----------------------------------------------------------------------------
(* Order *)

\* variant: anything not yet delivered can be cancelled
can_be_cancelled_undelivered(order) == order.status # "delivered"

can_be_cancelled(order) == order.status \in {"pending", "paid"}

can_be_shipped(order) ==
    order.status = "paid" /\ order.payment_status = "completed"

\* 2^e modulo 1000
RECURSIVE Pow2Mod1000(_)
Pow2Mod1000(e) == IF e = 0 THEN 1 ELSE (2 * Pow2Mod1000(e - 1)) % 1000

\* the b with 2^b <= k / 1000 < 2^(b + 1), for k >= 1
RECURSIVE BinaryExponent(_, _, _)
BinaryExponent(k, unit, b) ==
    IF k < unit THEN
        IF 2 * k >= unit THEN b - 1 ELSE BinaryExponent(2 * k, unit, b - 1)
    ELSE IF k >= 2 * unit THEN BinaryExponent(k, 2 * unit, b + 1)
    ELSE b

\* The database is SQLite, which has no decimal type: a Decimal written to a
\* DECIMAL(10, 2) column is stored as the nearest binary double and read back
\* formatted to two decimals.  k is the value written, in thousandths; the
\* result is the value read back, in cents.  A value that is not half a cent
\* comes back as the nearest cent.  For half a cent the double decides: with
\* a 53 bit mantissa m = round(k * 2^e / 1000), the double lies below the
\* value when the dropped fraction is under one half and above it otherwise;
\* a value the double holds exactly goes to the even cent.
DECIMAL_10_2(k) ==
    IF k % 10 # 5 THEN (k + 5) \div 10
    ELSE LET e == 52 - BinaryExponent(k, 1000, 0)
             r == ((k % 1000) * Pow2Mod1000(e)) % 1000
             c == k \div 10
         IN  IF r = 0 THEN (IF c % 2 = 0 THEN c ELSE c + 1)
             ELSE IF r < 500 THEN c
             ELSE c + 1

\* tax_amount = subtotal * Decimal('0.10'), in thousandths
tax_amount(sub) == sub

\* variant: an order of exactly 100.00 still pays for shipping
shipping_amount_up_to_threshold(sub) == IF sub <= 10000 THEN 1000 ELSE 0

\* shipping_amount = 10.00 if subtotal < 100.00 else 0.00, in cents
shipping_amount(sub) == IF sub < 10000 THEN 1000 ELSE 0

\* variant: a shipped order may still be cancelled
valid_transitions_cancel_shipped ==
    [pending   |-> {"paid", "cancelled"},
     paid      |-> {"shipped", "cancelled"},
     shipped   |-> {"delivered", "cancelled"},
     delivered |-> {},
     cancelled |-> {}]

\* variant: a paid order may be marked delivered without being shipped
valid_transitions_skip_shipping ==
    [pending   |-> {"paid", "cancelled"},
     paid      |-> {"shipped", "delivered", "cancelled"},
     shipped   |-> {"delivered"},
     delivered |-> {},
     cancelled |-> {}]

valid_transitions ==
    [pending   |-> {"paid", "cancelled"},
     paid      |-> {"shipped", "cancelled"},
     shipped   |-> {"delivered"},
     delivered |-> {},
     cancelled |-> {}]

\* variant: a request for the status the order already has is let through
validate_status_transition_or_same(current_status, new_status) ==
    \/ new_status = current_status
    \/ /\ current_status \in DOMAIN valid_transitions
       /\ new_status \in valid_transitions[current_status]

validate_status_transition(current_status, new_status) ==
    /\ current_status \in DOMAIN valid_transitions
    /\ new_status \in valid_transitions[current_status]

\* variant: the order is looked up by its id alone
get_user_order_of_any_user(db, user_id, order_id) ==
    IF order_id \in 1..Len(db.orders) THEN order_id ELSE 0

\* id of the order with this id that this user owns, 0 when there is none
get_user_order(db, user_id, order_id) ==
    IF order_id \in 1..Len(db.orders)
       /\ db.orders[order_id].user_id = user_id
    THEN order_id ELSE 0

\* variant: only the first cart item is validated
validate_cart_items_first_only(db, its) ==
    IF its = <<>> THEN "ok"
    ELSE LET product == db.products[Head(its).product_id]
         IN  IF ~product.is_active
             THEN "Product is no longer available"
             ELSE IF ~can_order(product, Head(its).quantity)
             THEN "Insufficient stock for product"
             ELSE "ok"

\* the validation loop of checkout: the detail of the first item that fails
RECURSIVE validate_cart_items(_, _)
validate_cart_items(db, its) ==
    IF its = <<>> THEN "ok"
    ELSE LET product == db.products[Head(its).product_id]
         IN  IF ~product.is_active
             THEN "Product is no longer available"
             ELSE IF ~can_order(product, Head(its).quantity)
             THEN "Insufficient stock for product"
             ELSE validate_cart_items(db, Tail(its))

\* variant: one unit is taken per cart item, whatever its quantity
RECURSIVE decrement_stock_by_one(_, _)
decrement_stock_by_one(prods, its) ==
    IF its = <<>> THEN prods
    ELSE decrement_stock_by_one(
           [prods EXCEPT ![Head(its).product_id].stock_quantity = @ - 1],
           Tail(its))

\* product.stock_quantity -= cart_item.quantity, item by item
RECURSIVE decrement_stock(_, _)
decrement_stock(prods, its) ==
    IF its = <<>> THEN prods
    ELSE decrement_stock(
           [prods EXCEPT ![Head(its).product_id].stock_quantity =
                             @ - Head(its).quantity],
           Tail(its))

\* product.stock_quantity += item.quantity for every item whose product exists
RECURSIVE restore_stock(_, _)
restore_stock(prods, its) ==
    IF its = <<>> THEN prods
    ELSE restore_stock(
           IF Head(its).product_id \in DOMAIN prods
           THEN [prods EXCEPT ![Head(its).product_id].stock_quantity =
                                 @ + Head(its).quantity]
           ELSE prods,
           Tail(its))

order_items(db, its) ==
    [i \in 1..Len(its) |->
        [product_id   |-> its[i].product_id,
         quantity     |-> its[i].quantity,
         unit_price   |-> its[i].unit_price,
         total_price  |-> subtotal(its[i]),
         product_name |-> db.products[its[i].product_id].name,
         product_sku  |-> db.products[its[i].product_id].sku]]

\* the checks of create_order_from_cart: "ok" or the detail it raises
validate_checkout(db, user_id) ==
    LET cart_id == get_cart(db, user_id)
    IN  IF cart_id = 0 \/ is_empty(db, cart_id) THEN "Cart is empty"
        ELSE validate_cart_items(db, items(db, cart_id))

\* self.db.add(order); self.db.flush(): the order row, without items yet
add_order(db, user_id, checkout_request) ==
    LET cart_id == get_cart(db, user_id)
        sub     == total_amount(db, cart_id)
        tax     == tax_amount(sub)
        ship    == shipping_amount(sub)
        order   ==
                [user_id                |-> user_id,
                 status                 |-> "pending",
                 payment_status         |-> "pending",
                 subtotal               |-> DECIMAL_10_2(10 * sub),
                 tax_amount             |-> DECIMAL_10_2(tax),
                 shipping_amount        |-> DECIMAL_10_2(10 * ship),
                 discount_amount        |-> 0,
                 total_amount           |->
                     DECIMAL_10_2(10 * sub + tax + 10 * ship),
                 shipping_address       |-> checkout_request.shipping_address,
                 billing_address        |-> checkout_request.billing_address,
                 phone                  |-> checkout_request.phone,
                 notes                  |-> checkout_request.notes,
                 payment_method         |-> checkout_request.payment_method,
                 payment_transaction_id |-> NULL,
                 shipped_at             |-> NULL,
                 delivered_at           |-> NULL,
                 items                  |-> <<>>]
    IN  [db EXCEPT !.orders = Append(@, order)]

\* one turn of the loop: the order item is added and its stock taken
add_order_item(db, order_id, cart_item) ==
    [db EXCEPT
       !.orders[order_id].items = @ \o order_items(db, <<cart_item>>),
       !.products = decrement_stock(@, <<cart_item>>)]

RECURSIVE add_order_items(_, _, _)
add_order_items(db, order_id, its) ==
    IF its = <<>> THEN db
    ELSE add_order_items(add_order_item(db, order_id, Head(its)),
                         order_id, Tail(its))

\* self.db.query(CartItem).filter(CartItem.cart_id == cart.id).delete()
delete_cart_items(db, cart_id) ==
    [db EXCEPT !.cart_items = SelectSeq(@, LAMBDA it : it.cart_id # cart_id)]

create_order_from_cart(db, user_id, checkout_request) ==
    IF validate_checkout(db, user_id) # "ok"
    THEN Raise(db, 400, validate_checkout(db, user_id))
    ELSE LET cart_id == get_cart(db, user_id)
             db1     == add_order(db, user_id, checkout_request)
             db2     == add_order_items(db1, Len(db1.orders),
                                        items(db, cart_id))
         IN  Ok(delete_cart_items(db2, cart_id))

\* variant: only payment_status is checked before paying
process_payment_begin_no_status_check(db, user_id, order_id) ==
    LET id == get_user_order(db, user_id, order_id)
    IN  IF id = 0 THEN Raise(db, 404, "Order not found")
        ELSE IF db.orders[id].payment_status # "pending"
        THEN Raise(db, 400, "Payment has already been processed")
        ELSE Ok([db EXCEPT !.orders[id].payment_status = "processing"])

\* variant: the gateway is called before processing is committed
process_payment_begin_no_commit(db, user_id, order_id) ==
    LET id == get_user_order(db, user_id, order_id)
    IN  IF id = 0 THEN Raise(db, 404, "Order not found")
        ELSE IF db.orders[id].status # "pending"
        THEN Raise(db, 400, "Order cannot be paid")
        ELSE IF db.orders[id].payment_status # "pending"
        THEN Raise(db, 400, "Payment has already been processed")
        ELSE Ok(db)

\* variant: a failed payment may be tried again
process_payment_begin_retrying_failed(db, user_id, order_id) ==
    LET id == get_user_order(db, user_id, order_id)
    IN  IF id = 0 THEN Raise(db, 404, "Order not found")
        ELSE IF db.orders[id].status # "pending"
        THEN Raise(db, 400, "Order cannot be paid")
        ELSE IF db.orders[id].payment_status \notin {"pending", "failed"}
        THEN Raise(db, 400, "Payment has already been processed")
        ELSE Ok([db EXCEPT !.orders[id].payment_status = "processing"])

\* process_payment up to the commit that precedes the gateway call
process_payment_begin(db, user_id, order_id) ==
    LET id == get_user_order(db, user_id, order_id)
    IN  IF id = 0 THEN Raise(db, 404, "Order not found")
        ELSE IF db.orders[id].status # "pending"
        THEN Raise(db, 400, "Order cannot be paid")
        ELSE IF db.orders[id].payment_status # "pending"
        THEN Raise(db, 400, "Payment has already been processed")
        ELSE Ok([db EXCEPT !.orders[id].payment_status = "processing"])

\* variant: a failed payment leaves the stock reserved
process_payment_finish_no_restore(db, id, payment_response) ==
    LET o1 == [db.orders[id] EXCEPT
                 !.payment_status = payment_response.status,
                 !.payment_transaction_id = payment_response.transaction_id]
        logged == Append(db.gateway_log,
                    [order_id       |-> id,
                     payment_method |-> o1.payment_method,
                     amount         |-> payment_response.amount,
                     status         |-> payment_response.status,
                     transaction_id |-> payment_response.transaction_id])
    IN  IF payment_response.status = "completed"
        THEN Ok([db EXCEPT !.orders[id] = [o1 EXCEPT !.status = "paid"],
                           !.gateway_log = logged])
        ELSE Raise([db EXCEPT
                      !.orders[id] = [o1 EXCEPT !.status = "pending"],
                      !.gateway_log = logged],
                   400, "Payment failed: " \o payment_response.message)

\* variant: the gateway's transaction id is not stored on the order
process_payment_finish_drop_txn(db, id, payment_response) ==
    LET o1 == [db.orders[id] EXCEPT
                 !.payment_status = payment_response.status]
        logged == Append(db.gateway_log,
                    [order_id       |-> id,
                     payment_method |-> o1.payment_method,
                     amount         |-> payment_response.amount,
                     status         |-> payment_response.status,
                     transaction_id |-> payment_response.transaction_id])
    IN  IF payment_response.status = "completed"
        THEN Ok([db EXCEPT !.orders[id] = [o1 EXCEPT !.status = "paid"],
                           !.gateway_log = logged])
        ELSE Raise([db EXCEPT
                      !.orders[id] = [o1 EXCEPT !.status = "pending"],
                      !.products = restore_stock(@, o1.items),
                      !.gateway_log = logged],
                   400, "Payment failed: " \o payment_response.message)

\* variant: PaymentFailed is raised before the outcome is committed
process_payment_finish_raise_first(db, id, payment_response) ==
    LET o1 == [db.orders[id] EXCEPT
                 !.payment_status = payment_response.status,
                 !.payment_transaction_id = payment_response.transaction_id]
        logged == Append(db.gateway_log,
                    [order_id       |-> id,
                     payment_method |-> o1.payment_method,
                     amount         |-> payment_response.amount,
                     status         |-> payment_response.status,
                     transaction_id |-> payment_response.transaction_id])
    IN  IF payment_response.status = "completed"
        THEN Ok([db EXCEPT !.orders[id] = [o1 EXCEPT !.status = "paid"],
                           !.gateway_log = logged])
        ELSE Raise([db EXCEPT !.gateway_log = logged],
                   400, "Payment failed: " \o payment_response.message)

\* process_payment from the gateway's answer to the end
process_payment_finish(db, id, payment_response) ==
    LET o1 == [db.orders[id] EXCEPT
                 !.payment_status = payment_response.status,
                 !.payment_transaction_id = payment_response.transaction_id]
        logged == Append(db.gateway_log,
                    [order_id       |-> id,
                     payment_method |-> o1.payment_method,
                     amount         |-> payment_response.amount,
                     status         |-> payment_response.status,
                     transaction_id |-> payment_response.transaction_id])
    IN  IF payment_response.status = "completed"
        THEN Ok([db EXCEPT !.orders[id] = [o1 EXCEPT !.status = "paid"],
                           !.gateway_log = logged])
        ELSE IF payment_response.status = "failed"
        THEN Raise([db EXCEPT
                      !.orders[id] = [o1 EXCEPT !.status = "pending"],
                      !.products = restore_stock(@, o1.items),
                      !.gateway_log = logged],
                   400, "Payment failed: " \o payment_response.message)
        ELSE Ok([db EXCEPT !.orders[id] = o1, !.gateway_log = logged])

\* the gateway's answer to the call process_payment makes for this order
gateway_response(db, order_id, draw) ==
    PaymentService_process_payment(
        db.orders[order_id].payment_method,
        db.orders[order_id].total_amount,
        draw, Len(db.gateway_log) + 1)

process_payment(db, user_id, order_id, draw) ==
    LET begun == process_payment_begin(db, user_id, order_id)
    IN  IF begun.status_code # 200 THEN begun
        ELSE process_payment_finish(begun.db, order_id,
                                    gateway_response(db, order_id, draw))

get_order(db, user_id, order_id) ==
    IF get_user_order(db, user_id, order_id) = 0
    THEN Raise(db, 404, "Order not found")
    ELSE Ok(db)

\* update_data carries NULL for the fields the request leaves out
update_order_status(db, order_id, update_data) ==
    IF order_id \notin 1..Len(db.orders)
    THEN Raise(db, 404, "Order not found")
    ELSE IF /\ update_data.status # NULL
            /\ ~validate_status_transition(db.orders[order_id].status,
                                           update_data.status)
    THEN Raise(db, 400, "Invalid status transition")
    ELSE
      LET o  == db.orders[order_id]
          o1 == IF update_data.status = NULL THEN o
                ELSE [o EXCEPT
                        !.status = update_data.status,
                        !.shipped_at =
                            IF update_data.status = "shipped"
                            THEN "now" ELSE @,
                        !.delivered_at =
                            IF update_data.status = "delivered"
                            THEN "now" ELSE @]
          Set(old, new) == IF new # NULL THEN new ELSE old
      IN  Ok([db EXCEPT !.orders[order_id] =
                [o1 EXCEPT
                   !.payment_status = Set(@, update_data.payment_status),
                   !.shipping_address = Set(@, update_data.shipping_address),
                   !.billing_address = Set(@, update_data.billing_address),
                   !.phone = Set(@, update_data.phone),
                   !.notes = Set(@, update_data.notes),
                   !.payment_transaction_id =
                       Set(@, update_data.payment_transaction_id)]])

\* variant: cancelling a paid order marks its payment refunded
cancel_order_refunding(db, user_id, order_id) ==
    LET id == get_user_order(db, user_id, order_id)
    IN  IF id = 0 THEN Raise(db, 404, "Order not found")
        ELSE IF ~can_be_cancelled(db.orders[id])
        THEN Raise(db, 400, "Order cannot be cancelled")
        ELSE Ok([db EXCEPT
                 !.products = restore_stock(@, db.orders[id].items),
                 !.orders[id].status = "cancelled",
                 !.orders[id].payment_status =
                     IF @ = "completed" THEN "refunded" ELSE @])

cancel_order(db, user_id, order_id) ==
    LET id == get_user_order(db, user_id, order_id)
    IN  IF id = 0 THEN Raise(db, 404, "Order not found")
        ELSE IF ~can_be_cancelled(db.orders[id])
        THEN Raise(db, 400, "Order cannot be cancelled")
        ELSE Ok([db EXCEPT
                 !.products = restore_stock(@, db.orders[id].items),
                 !.orders[id].status = "cancelled"])

-----------------------------------------------------------------------------
(* Catalog administration *)

\* stock_quantity >= 0 is enforced by the request schema
update_stock(db, product_id, stock_quantity) ==
    IF product_id \notin DOMAIN db.products
    THEN Raise(db, 404, "Product not found")
    ELSE Ok([db EXCEPT !.products[product_id].stock_quantity =
                           stock_quantity])

\* ProductBase.validate_compare_price: an optional value is <<>> or <<v>>
validate_compare_price(v, values) ==
    ~(v # <<>> /\ "price" \in DOMAIN values /\ v[1] <= values.price)

\* product_data has passed the checks of ProductCreate
create_product(db, product_data) ==
    IF \E q \in DOMAIN db.products : db.products[q].sku = product_data.sku
    THEN Raise(db, 400, "Product with this SKU already exists")
    ELSE LET id == Cardinality(DOMAIN db.products) + 1
         IN  Ok([db EXCEPT !.products =
                    [q \in DOMAIN @ \cup {id} |->
                        IF q = id THEN product_data ELSE @[q]]])

\* variant: the order items of the product follow its new name, sku and price
update_product_rewriting_order_items(db, product_id, update_data) ==
    IF product_id \notin DOMAIN db.products
    THEN Raise(db, 404, "Product not found")
    ELSE IF /\ "sku" \in DOMAIN update_data
            /\ \E q \in DOMAIN db.products :
                  q # product_id /\ db.products[q].sku = update_data.sku
    THEN Raise(db, 400, "Product with this SKU already exists")
    ELSE LET row == [f \in DOMAIN db.products[product_id] |->
                       IF f \in DOMAIN update_data THEN update_data[f]
                       ELSE db.products[product_id][f]]
         IN  Ok([db EXCEPT
                 !.products[product_id] = row,
                 !.orders =
                     [o \in 1..Len(@) |->
                        [@[o] EXCEPT !.items =
                           [k \in 1..Len(@) |->
                              IF @[k].product_id = product_id
                              THEN [@[k] EXCEPT
                                      !.product_name = row.name,
                                      !.product_sku = row.sku,
                                      !.unit_price = row.price]
                              ELSE @[k]]]]])

\* update_data holds exactly the fields the request sets (exclude_unset)
update_product(db, product_id, update_data) ==
    IF product_id \notin DOMAIN db.products
    THEN Raise(db, 404, "Product not found")
    ELSE IF /\ "sku" \in DOMAIN update_data
            /\ \E q \in DOMAIN db.products :
                  q # product_id /\ db.products[q].sku = update_data.sku
    THEN Raise(db, 400, "Product with this SKU already exists")
    ELSE Ok([db EXCEPT !.products[product_id] =
               [f \in DOMAIN @ |->
                   IF f \in DOMAIN update_data THEN update_data[f] ELSE @[f]]])

-----------------------------------------------------------------------------
(* Requests drawn by the actions *)

CheckoutRequests ==
    {[shipping_address |-> "address_a", billing_address |-> NULL,
      phone |-> NULL, notes |-> NULL, payment_method |-> m] :
        m \in {"credit_card", "cash"}}

\* the two values of random() in percent: the first below every
\* success_rate or above every success_rate
Draws == {<<0, 0>>, <<99, 20>>}

NoUpdate ==
    [status |-> NULL, payment_status |-> NULL, shipping_address |-> NULL,
     billing_address |-> NULL, phone |-> NULL, notes |-> NULL,
     payment_transaction_id |-> NULL]

OrderUpdates ==
    {[NoUpdate EXCEPT !.status = s, !.payment_status = p] :
        s \in OrderStatus \cup {NULL}, p \in PaymentStatus \cup {NULL}}
    \cup
    {[status |-> s, payment_status |-> p, shipping_address |-> "address_b",
      billing_address |-> "billing_b", phone |-> "555",
      notes |-> "note_b", payment_transaction_id |-> "txn_admin"] :
        s \in OrderStatus \cup {NULL}, p \in {NULL, "refunded"}}

\* admin updates that ask for a status and nothing else
StatusUpdates == {[NoUpdate EXCEPT !.status = s] : s \in OrderStatus}

ProductUpdates == {[is_active |-> b] : b \in BOOLEAN}

\* a price cut and a price rise
PriceUpdates == {[price |-> 1999], [price |-> 5000]}

\* bodies of POST /products: a new sku or a taken one, with every relation
\* of compare_price to price
ProductCreates ==
    {[name |-> "product_new", sku |-> sku, price |-> 2995,
      compare_price |-> c, stock_quantity |-> 0, is_active |-> TRUE] :
        sku \in {"sku_1", "sku_new"},
        c \in {<<>>, <<1999>>, <<2995>>, <<5000>>}}

\* bodies of PUT /products/{id} that set or clear compare_price
ComparePriceUpdates ==
    {[compare_price |-> c] : c \in {<<>>, <<1999>>, <<5000>>}}

\* payment requests handed to the gateway: every configured method and two
\* it does not know
PaymentRequests ==
    {[payment_method |-> m, amount |-> a] :
        m \in DOMAIN PAYMENT_METHODS \cup {"cash", "gift_card"},
        a \in {2995, 10000}}

\* values of random() around every success_rate, with two failure reasons
GatewayDraws ==
    {<<d, e>> : d \in {0, 84, 85, 91, 92, 94, 95, 97, 98, 99}, e \in {0, 99}}

\* a product is renamed, renumbered and repriced, or taken off sale
CatalogUpdates ==
    {[name |-> "renamed", sku |-> "sku_new", price |-> 1999],
     [is_active |-> FALSE]}

-----------------------------------------------------------------------------
(* Actions: one request, run to completion *)

\* no request is part way through its handler
Idle == [op |-> "none", pc |-> "idle"]

\* self.db.commit(): the tables become db
Commit(db) ==
    /\ products' = db.products
    /\ carts' = db.carts
    /\ cart_items' = db.cart_items
    /\ orders' = db.orders
    /\ gateway_log' = db.gateway_log

Apply(op, r) ==
    /\ Commit(r.db)
    /\ response' = [op |-> op, status_code |-> r.status_code,
                    detail |-> r.detail]
    /\ UNCHANGED <<request, sessions>>

\* carts are filled while an order can still be placed
AddToCart ==
    /\ Len(orders) < MaxOrders
    /\ \E u \in Users, p \in Products, q \in 1..MaxQty :
          /\ get_cart(State, u) # 0 \/ Len(carts) < MaxCarts
          /\ Apply("add_to_cart", add_to_cart(State, u, p, q))

RemoveFromCart ==
    \E u \in Users, p \in Products :
        Apply("remove_from_cart", remove_from_cart(State, u, p))

UpdateCartItem ==
    \E u \in Users, p \in Products, q \in 1..MaxQty :
        Apply("update_cart_item", update_cart_item(State, u, p, q))

ClearCart ==
    \E u \in Users : Apply("clear_cart", clear_cart(State, u))

Checkout ==
    /\ Len(orders) < MaxOrders
    /\ \E u \in Users, req \in CheckoutRequests :
          Apply("create_order_from_cart",
                create_order_from_cart(State, u, req))

ProcessPayment ==
    /\ Len(gateway_log) < MaxGatewayCalls
    /\ \E u \in Users, o \in 1..MaxOrders, draw \in Draws :
          Apply("process_payment", process_payment(State, u, o, draw))

CancelOrder ==
    \E u \in Users, o \in 1..MaxOrders :
        Apply("cancel_order", cancel_order(State, u, o))

UpdateOrderStatus ==
    \E o \in 1..MaxOrders, upd \in OrderUpdates :
        Apply("update_order_status", update_order_status(State, o, upd))

UpdateStock ==
    \E p \in Products, n \in 0..MaxStock :
        Apply("update_stock", update_stock(State, p, n))

UpdateProduct ==
    \E p \in Products, upd \in ProductUpdates :
        Apply("update_product", update_product(State, p, upd))

UpdatePrice ==
    \E p \in Products, upd \in PriceUpdates :
        Apply("update_product", update_product(State, p, upd))

\* POST /products: the body is validated by ProductCreate first
CreateProduct ==
    /\ Cardinality(DOMAIN products) < MaxProducts
    /\ \E product_data \in ProductCreates :
          IF ~validate_compare_price(product_data.compare_price, product_data)
          THEN Apply("create_product",
                     Raise(State, 422,
                           "Compare price must be greater than regular price"))
          ELSE Apply("create_product", create_product(State, product_data))

\* PUT /products/{id}: ProductUpdate has only field constraints
UpdateComparePrice ==
    \E p \in DOMAIN products,
       upd \in ComparePriceUpdates \cup PriceUpdates :
        Apply("update_product", update_product(State, p, upd))

\* one call of the gateway with its request, its draws and its answer
GatewayCall ==
    /\ Len(gateway_log) < MaxGatewayCalls
    /\ \E payment_request \in PaymentRequests, draw \in GatewayDraws :
          LET payment_response ==
                  PaymentService_process_payment(
                      payment_request.payment_method, payment_request.amount,
                      draw, Len(gateway_log) + 1)
          IN  /\ gateway_log' =
                    Append(gateway_log,
                        [order_id       |-> 0,
                         payment_method |-> payment_request.payment_method,
                         amount         |-> payment_response.amount,
                         status         |-> payment_response.status,
                         transaction_id |-> payment_response.transaction_id])
              /\ response' = [op |-> "PaymentService.process_payment",
                              status_code |-> 200,
                              detail |-> payment_response.message,
                              payment_request |-> payment_request,
                              draw |-> draw,
                              payment_response |-> payment_response]
              /\ UNCHANGED <<products, carts, cart_items, orders, request,
                             sessions>>

UpdateStatus ==
    \E o \in 1..MaxOrders, upd \in StatusUpdates :
        Apply("update_order_status", update_order_status(State, o, upd))

UpdateCatalog ==
    \E p \in Products, upd \in CatalogUpdates :
        Apply("update_product", update_product(State, p, upd))

-----------------------------------------------------------------------------
(* create_order_from_cart statement by statement.  What the handler writes  *)
(* before its commit is held in request.work, the view of its session; the  *)
(* tables change at the commit.                                             *)

\* lines 57-82: the checks; a request that passes them goes on
CheckoutBegin ==
    /\ request = Idle
    /\ Len(orders) < MaxOrders
    /\ \E u \in Users, req \in CheckoutRequests :
          IF validate_checkout(State, u) # "ok"
          THEN Apply("create_order_from_cart",
                     create_order_from_cart(State, u, req))
          ELSE /\ request' = [op |-> "create_order_from_cart",
                              pc |-> "add_order",
                              user_id |-> u,
                              checkout_request |-> req,
                              cart_id |-> get_cart(State, u),
                              todo |-> items(State, get_cart(State, u)),
                              work |-> State]
               /\ UNCHANGED <<products, carts, cart_items, orders,
                              gateway_log, response, sessions>>

\* variant: the order row is committed as soon as it is added
CheckoutAddOrder_committing ==
    /\ request.op = "create_order_from_cart"
    /\ request.pc = "add_order"
    /\ LET w == add_order(request.work, request.user_id,
                          request.checkout_request)
       IN  /\ request' = [request EXCEPT !.work = w, !.pc = "items"]
           /\ orders' = w.orders
    /\ UNCHANGED <<products, carts, cart_items, gateway_log, response,
                   sessions>>

\* lines 87-105: add and flush the order
CheckoutAddOrder ==
    /\ request.op = "create_order_from_cart"
    /\ request.pc = "add_order"
    /\ request' = [request EXCEPT
                     !.work = add_order(@, request.user_id,
                                        request.checkout_request),
                     !.pc = "items"]
    /\ UNCHANGED <<products, carts, cart_items, orders, gateway_log,
                   response, sessions>>

\* lines 108-122: one turn of the loop over the cart items
CheckoutAddOrderItem ==
    /\ request.op = "create_order_from_cart"
    /\ request.pc = "items"
    /\ request.todo # <<>>
    /\ request' = [request EXCEPT
                     !.work = add_order_item(@, Len(@.orders),
                                             Head(request.todo)),
                     !.todo = Tail(@)]
    /\ UNCHANGED <<products, carts, cart_items, orders, gateway_log,
                   response, sessions>>

\* line 125: delete the cart's items
CheckoutDeleteCartItems ==
    /\ request.op = "create_order_from_cart"
    /\ request.pc = "items"
    /\ request.todo = <<>>
    /\ request' = [request EXCEPT
                     !.work = delete_cart_items(@, request.cart_id),
                     !.pc = "commit"]
    /\ UNCHANGED <<products, carts, cart_items, orders, gateway_log,
                   response, sessions>>

\* lines 127-130: commit, then answer with the order
CheckoutCommit ==
    /\ request.op = "create_order_from_cart"
    /\ request.pc = "commit"
    /\ products' = request.work.products
    /\ orders' = request.work.orders
    /\ cart_items' = delete_cart_items(State, request.cart_id).cart_items
    /\ response' = [op |-> "create_order_from_cart", status_code |-> 200,
                    detail |-> "ok"]
    /\ request' = Idle
    /\ UNCHANGED <<carts, gateway_log, sessions>>

\* a statement after the checks raises, the commit included: the session is
\* closed without a commit and what it wrote is rolled back
CheckoutFail ==
    /\ request.op = "create_order_from_cart"
    /\ response' = [op |-> "create_order_from_cart", status_code |-> 500,
                    detail |-> "Internal Server Error"]
    /\ request' = Idle
    /\ UNCHANGED <<products, carts, cart_items, orders, gateway_log, sessions>>

-----------------------------------------------------------------------------
(* process_payment around its call of the gateway *)

\* lines 146-167: the checks, then payment_status = processing is committed
PaymentBegin ==
    /\ request = Idle
    /\ Len(gateway_log) < MaxGatewayCalls
    /\ \E u \in Users, o \in 1..MaxOrders :
          LET r == process_payment_begin(State, u, o)
          IN  IF r.status_code # 200 THEN Apply("process_payment", r)
              ELSE /\ Commit(r.db)
                   /\ request' = [op |-> "process_payment",
                                  pc |-> "gateway",
                                  user_id |-> u,
                                  order_id |-> o,
                                  status_code |-> 0,
                                  detail |-> "none"]
                   /\ UNCHANGED <<response, sessions>>

\* lines 169-186: the gateway answers; the outcome is committed
PaymentFinish ==
    /\ request.op = "process_payment"
    /\ request.pc = "gateway"
    /\ \E draw \in Draws :
          LET r == process_payment_finish(
                       State, request.order_id,
                       gateway_response(State, request.order_id, draw))
          IN  /\ Commit(r.db)
              /\ request' = [request EXCEPT
                               !.pc = "respond",
                               !.status_code = r.status_code,
                               !.detail = r.detail]
    /\ UNCHANGED <<response, sessions>>

\* lines 188-194: raise PaymentFailed or return the order
PaymentRespond ==
    /\ request.op = "process_payment"
    /\ request.pc = "respond"
    /\ response' = [op |-> "process_payment",
                    status_code |-> request.status_code,
                    detail |-> request.detail]
    /\ request' = Idle
    /\ UNCHANGED <<products, carts, cart_items, orders, gateway_log, sessions>>

\* the process dies during the call of the gateway or before it answers the
\* caller; the tables keep what was committed
PaymentCrash ==
    /\ request.op = "process_payment"
    /\ request.pc \in {"gateway", "respond"}
    /\ request' = [request EXCEPT !.pc = "crashed_in_" \o @]
    /\ UNCHANGED <<products, carts, cart_items, orders, gateway_log,
                   response, sessions>>

\* the process is started again
Restart ==
    /\ request.op = "process_payment"
    /\ request.pc \in {"crashed_in_gateway", "crashed_in_respond"}
    /\ request' = Idle
    /\ UNCHANGED <<products, carts, cart_items, orders, gateway_log,
                   response, sessions>>

\* the quantity of product p in a list of cart or order items
QtyOf(its, p) ==
    SumSeq([i \in 1..Len(its) |->
              IF its[i].product_id = p THEN its[i].quantity ELSE 0])

-----------------------------------------------------------------------------
(* Requests served at the same time by server processes that share the     *)
(* database (the handlers are coroutines without an await, so one process   *)
(* alone runs them one after another).  Every request has its own database  *)
(* session: what a session has read stays in its objects until it commits   *)
(* (a commit expires them), what it writes reaches the tables at its commit. *)

\* the worker answers and is free again
Answer(s, op, status_code, detail) ==
    /\ response' = [op |-> op, status_code |-> status_code,
                    detail |-> detail]
    /\ sessions' = [sessions EXCEPT ![s] = Idle]

\* add_to_cart lines 80-97: the product is read and checked
ConcurrentAddBegin ==
    \E s \in Sessions :
        /\ sessions[s] = Idle
        /\ Len(orders) < MaxOrders
        /\ Len(carts) <= MaxCarts
        /\ \E u \in Users, p \in Products, q \in 1..MaxQty :
              /\ IF ~products[p].is_active
                 THEN Answer(s, "add_to_cart", 404,
                             "Product not found or inactive")
                 ELSE IF ~can_order(products[p], q)
                 THEN Answer(s, "add_to_cart", 400, "Insufficient stock")
                 ELSE /\ sessions' =
                           [sessions EXCEPT ![s] =
                              [op |-> "add_to_cart",
                               pc |-> "get_or_create_cart",
                               user_id |-> u, product_id |-> p,
                               quantity |-> q, product |-> products[p],
                               expired |-> FALSE, cart_id |-> 0]]
                      /\ UNCHANGED response
              /\ UNCHANGED <<products, carts, cart_items, orders,
                             gateway_log, request>>

\* get_or_create_cart line 46: the query for the user's cart
ConcurrentCartQuery ==
    \E s \in Sessions :
        /\ sessions[s].op = "add_to_cart"
        /\ sessions[s].pc = "get_or_create_cart"
        /\ LET cart == get_cart(State, sessions[s].user_id)
           IN  sessions' =
                  [sessions EXCEPT ![s] =
                     [@ EXCEPT !.cart_id = cart,
                               !.pc = IF cart = 0 THEN "create_cart"
                                      ELSE "item"]]
        /\ UNCHANGED <<products, carts, cart_items, orders, gateway_log,
                       response, request>>

\* get_or_create_cart lines 47-51: no cart was found; one is added and
\* committed
ConcurrentCartCreate ==
    \E s \in Sessions :
        /\ sessions[s].op = "add_to_cart"
        /\ sessions[s].pc = "create_cart"
        /\ carts' = Append(carts, [user_id |-> sessions[s].user_id])
        /\ sessions' = [sessions EXCEPT ![s] =
                          [@ EXCEPT !.cart_id = Len(carts) + 1,
                                    !.expired = TRUE,
                                    !.pc = "item"]]
        /\ UNCHANGED <<products, cart_items, orders, gateway_log, response,
                       request>>

\* add_to_cart lines 102-130: the item is updated or created and committed
ConcurrentAddItem ==
    \E s \in Sessions :
        /\ sessions[s].op = "add_to_cart"
        /\ sessions[s].pc = "item"
        /\ LET product  == IF sessions[s].expired
                           THEN products[sessions[s].product_id]
                           ELSE sessions[s].product
               cart_id  == sessions[s].cart_id
               existing == find_item(State, cart_id, sessions[s].product_id)
               new_quantity ==
                   cart_items[existing].quantity + sessions[s].quantity
           IN  IF existing # 0 /\ ~can_order(product, new_quantity)
               THEN /\ Answer(s, "add_to_cart", 400, "Insufficient stock")
                    /\ UNCHANGED cart_items
               ELSE /\ Answer(s, "add_to_cart", 200, "ok")
                    /\ cart_items' =
                         IF existing # 0
                         THEN [cart_items EXCEPT
                                 ![existing].quantity = new_quantity,
                                 ![existing].unit_price = product.price]
                         ELSE Append(cart_items,
                                [cart_id |-> cart_id,
                                 product_id |-> sessions[s].product_id,
                                 quantity |-> sessions[s].quantity,
                                 unit_price |-> product.price])
        /\ UNCHANGED <<products, carts, orders, gateway_log, request>>

\* create_order_from_cart lines 57-76: the cart, its items and their
\* products are read into the session and checked
ConcurrentCheckoutBegin ==
    \E s \in Sessions :
        /\ sessions[s] = Idle
        /\ Len(orders) < MaxOrders
        /\ \E u \in Users, req \in CheckoutRequests :
              /\ IF validate_checkout(State, u) # "ok"
                 THEN LET r == create_order_from_cart(State, u, req)
                      IN  Answer(s, "create_order_from_cart",
                                 r.status_code, r.detail)
                 ELSE /\ sessions' =
                           [sessions EXCEPT ![s] =
                              [op |-> "create_order_from_cart",
                               pc |-> "add_order",
                               user_id |-> u,
                               checkout_request |-> req,
                               cart_id |-> get_cart(State, u),
                               todo |-> items(State, get_cart(State, u)),
                               read |-> State,
                               work |-> State]]
                      /\ UNCHANGED response
              /\ UNCHANGED <<products, carts, cart_items, orders,
                             gateway_log, request>>

\* lines 78-125: the order and its items are added, the stock the session
\* holds is lowered and the cart's items are deleted, all in the session
ConcurrentCheckoutWork ==
    \E s \in Sessions :
        /\ sessions[s].op = "create_order_from_cart"
        /\ sessions[s].pc = "add_order"
        /\ LET w1 == add_order(sessions[s].work, sessions[s].user_id,
                               sessions[s].checkout_request)
               w2 == add_order_items(w1, Len(w1.orders), sessions[s].todo)
               w3 == delete_cart_items(w2, sessions[s].cart_id)
           IN  sessions' = [sessions EXCEPT ![s] =
                              [@ EXCEPT !.work = w3, !.todo = <<>>,
                                        !.pc = "commit"]]
        /\ UNCHANGED <<products, carts, cart_items, orders, gateway_log,
                       response, request>>

\* variant: the stock is lowered in the database, relative to the row
ConcurrentCheckoutCommit_relative ==
    \E s \in Sessions :
        /\ sessions[s].op = "create_order_from_cart"
        /\ sessions[s].pc = "commit"
        /\ LET work  == sessions[s].work
               order == work.orders[Len(work.orders)]
           IN  /\ orders' = Append(orders, order)
               /\ products' =
                     [p \in DOMAIN products |->
                        [products[p] EXCEPT !.stock_quantity =
                            @ - QtyOf(order.items, p)]]
        /\ cart_items' =
              delete_cart_items(State, sessions[s].cart_id).cart_items
        /\ Answer(s, "create_order_from_cart", 200, "ok")
        /\ UNCHANGED <<carts, gateway_log, request>>

\* line 127: the commit inserts the order with its items, writes the
\* stock_quantity the session holds to every product row it lowered and
\* deletes the items of the cart
ConcurrentCheckoutCommit ==
    \E s \in Sessions :
        /\ sessions[s].op = "create_order_from_cart"
        /\ sessions[s].pc = "commit"
        /\ LET work  == sessions[s].work
               order == work.orders[Len(work.orders)]
           IN  /\ orders' = Append(orders, order)
               /\ products' =
                     [p \in DOMAIN products |->
                        IF QtyOf(order.items, p) > 0
                        THEN [products[p] EXCEPT !.stock_quantity =
                                work.products[p].stock_quantity]
                        ELSE products[p]]
        /\ cart_items' =
              delete_cart_items(State, sessions[s].cart_id).cart_items
        /\ Answer(s, "create_order_from_cart", 200, "ok")
        /\ UNCHANGED <<carts, gateway_log, request>>

Init ==
    /\ products =
         [p \in Products |->
            [name |-> "product_" \o ToString(p),
             sku |-> "sku_" \o ToString(p),
             price |-> IF p = 1 THEN 2995 ELSE 5000,
             compare_price |-> <<>>,
             stock_quantity |-> MaxStock,
             is_active |-> TRUE]]
    /\ carts = <<>>
    /\ cart_items = <<>>
    /\ orders = <<>>
    /\ gateway_log = <<>>
    /\ response = [op |-> "none", status_code |-> 0, detail |-> "none"]
    /\ request = Idle
    /\ sessions = [s \in Sessions |-> Idle]

\* the whole API
Next ==
    \/ AddToCart
    \/ RemoveFromCart
    \/ UpdateCartItem
    \/ ClearCart
    \/ Checkout
    \/ ProcessPayment
    \/ CancelOrder
    \/ UpdateOrderStatus
    \/ UpdateStock
    \/ UpdateProduct
    \/ UpdatePrice
    \/ UpdateCatalog
    \/ UpdateStatus
    \/ CreateProduct
    \/ UpdateComparePrice
    \/ GatewayCall
    \/ ConcurrentAddBegin
    \/ ConcurrentCartQuery
    \/ ConcurrentCartCreate
    \/ ConcurrentAddItem
    \/ ConcurrentCheckoutBegin
    \/ ConcurrentCheckoutWork
    \/ ConcurrentCheckoutCommit

Spec == Init /\ [][Next]_vars

\* shopping, catalog administration and checkout
NextCheckout ==
    \/ AddToCart
    \/ RemoveFromCart
    \/ UpdateCartItem
    \/ ClearCart
    \/ UpdateStock
    \/ UpdateProduct
    \/ Checkout

SpecCheckout == Init /\ [][NextCheckout]_vars

\* the life of an order: checkout, payment, cancellation, administration
NextOrder ==
    \/ AddToCart
    \/ Checkout
    \/ ProcessPayment
    \/ CancelOrder
    \/ UpdateOrderStatus

SpecOrder == Init /\ [][NextOrder]_vars

\* shopping while prices change
NextCart ==
    \/ AddToCart
    \/ RemoveFromCart
    \/ UpdateCartItem
    \/ ClearCart
    \/ UpdatePrice

SpecCart == Init /\ [][NextCart]_vars

\* orders while the catalog changes
NextCatalog ==
    \/ AddToCart
    \/ Checkout
    \/ UpdateCatalog
    \/ ProcessPayment
    \/ CancelOrder

SpecCatalog == Init /\ [][NextCatalog]_vars

\* every request that reads or writes stock, one after another
NextStock ==
    \/ AddToCart
    \/ UpdateCartItem
    \/ RemoveFromCart
    \/ ClearCart
    \/ Checkout
    \/ ProcessPayment
    \/ CancelOrder
    \/ UpdateStatus
    \/ UpdateStock

SpecStock == Init /\ [][NextStock]_vars

\* the catalog's prices
NextProducts ==
    \/ CreateProduct
    \/ UpdateComparePrice

SpecProducts == Init /\ [][NextProducts]_vars

\* buying, paying and cancelling, with no administrator
NextPurchase ==
    \/ AddToCart
    \/ Checkout
    \/ ProcessPayment
    \/ CancelOrder

SpecPurchase == Init /\ [][NextPurchase]_vars

\* two workers filling carts at the same time
NextCartRace ==
    \/ ConcurrentAddBegin
    \/ ConcurrentCartQuery
    \/ ConcurrentCartCreate
    \/ ConcurrentAddItem

SpecCartRace == Init /\ [][NextCartRace]_vars

\* two workers filling carts and checking out at the same time
NextCheckoutRace ==
    \/ ConcurrentAddBegin
    \/ ConcurrentCartQuery
    \/ ConcurrentCartCreate
    \/ ConcurrentAddItem
    \/ ConcurrentCheckoutBegin
    \/ ConcurrentCheckoutWork
    \/ ConcurrentCheckoutCommit

SpecCheckoutRace == Init /\ [][NextCheckoutRace]_vars

\* the gateway alone
NextGateway ==
    \/ GatewayCall

SpecGateway == Init /\ [][NextGateway]_vars

\* checkout, one statement at a time
NextCheckoutSteps ==
    \/ AddToCart
    \/ CheckoutBegin
    \/ CheckoutAddOrder
    \/ CheckoutAddOrderItem
    \/ CheckoutDeleteCartItems
    \/ CheckoutCommit
    \/ CheckoutFail

SpecCheckoutSteps == Init /\ [][NextCheckoutSteps]_vars

\* payment, step by step around the call of the gateway
NextPayment ==
    \/ AddToCart
    \/ Checkout
    \/ PaymentBegin
    \/ PaymentFinish
    \/ PaymentRespond
    \/ PaymentCrash
    \/ Restart

SpecPayment == Init /\ [][NextPayment]_vars

-----------------------------------------------------------------------------
(* Properties *)

\* total quantity of product p in a sequence of cart items or order items
StockOf(db) == [p \in Products |-> db.products[p].stock_quantity]

AllowedStatusChanges ==
    {<<"pending", "paid">>, <<"pending", "cancelled">>,
     <<"paid", "shipped">>, <<"paid", "cancelled">>,
     <<"shipped", "delivered">>}

\* C1: over any sequence of checkouts, payments, cancellations and admin
\* status updates, an order row is never removed and every change of an
\* order's status is one of pending->paid, pending->cancelled, paid->shipped,
\* paid->cancelled, shipped->delivered; so delivered and cancelled are final.
StatusChangesFollowTable ==
    [][/\ Len(orders') >= Len(orders)
       /\ \A i \in 1..Len(orders) :
             orders'[i].status # orders[i].status
             => <<orders[i].status, orders'[i].status>>
                    \in AllowedStatusChanges]_vars

\* C1 witness: an order went all the way to delivered by admin updates
OrderDelivered ==
    /\ response.op = "update_order_status"
    /\ response.status_code = 200
    /\ \E i \in 1..Len(orders) : orders[i].status = "delivered"

\* a cart item of this cart fails validation, or there is nothing to order
CheckoutMustFail(db, u) ==
    LET its == items(db, get_cart(db, u))
    IN  \/ get_cart(db, u) = 0
        \/ Len(its) = 0
        \/ \E i \in 1..Len(its) :
              \/ ~db.products[its[i].product_id].is_active
              \/ db.products[its[i].product_id].stock_quantity
                     < its[i].quantity

\* C2: checkout of a missing or empty cart, or of a cart with any item whose
\* product is inactive or has less stock than the item's quantity, fails and
\* commits nothing: no order, no stock change, the cart keeps its items.
CheckoutAllOrNothing ==
    \A u \in Users, req \in CheckoutRequests :
        CheckoutMustFail(State, u)
        => LET r == create_order_from_cart(State, u, req)
           IN  r.status_code = 400 /\ r.db = State

\* C2 witness: a checkout was rejected for a cart holding one item that
\* passes validation and one that does not
CheckoutRejectedWithPassingItem ==
    /\ response.op = "create_order_from_cart"
    /\ response.detail \in {"Insufficient stock for product",
                            "Product is no longer available"}
    /\ \E u \in Users :
          LET its == items(State, get_cart(State, u))
          IN  /\ Len(its) = 2
              /\ CheckoutMustFail(State, u)
              /\ \E i \in 1..2 :
                    can_order(products[its[i].product_id], its[i].quantity)

\* C3: a successful checkout lowers every product's stock by exactly the
\* quantity of that product in the cart, leaves the cart in place with no
\* items, and appends one pending/pending order of the user with one order
\* item per former cart item.
CheckoutSuccessEffects ==
    \A u \in Users, req \in CheckoutRequests :
        LET r       == create_order_from_cart(State, u, req)
            cart_id == get_cart(State, u)
            its     == items(State, cart_id)
            o       == r.db.orders[Len(orders) + 1]
        IN  r.status_code = 200
            => /\ \A p \in Products :
                     products[p].stock_quantity
                       - r.db.products[p].stock_quantity = QtyOf(its, p)
               /\ SumSeq([i \in 1..Len(its) |-> its[i].quantity])
                    = SumSeq([i \in 1..Len(o.items) |-> o.items[i].quantity])
               /\ cart_id # 0
               /\ r.db.carts = carts
               /\ items(r.db, cart_id) = <<>>
               /\ Len(r.db.orders) = Len(orders) + 1
               /\ SubSeq(r.db.orders, 1, Len(orders)) = orders
               /\ o.user_id = u
               /\ o.status = "pending"
               /\ o.payment_status = "pending"
               /\ Len(o.items) = Len(its)
               /\ \A i \in 1..Len(its) :
                     /\ o.items[i].product_id = its[i].product_id
                     /\ o.items[i].quantity = its[i].quantity
                     /\ o.items[i].unit_price = its[i].unit_price

\* C3 witness: a checkout of a two-item cart with a quantity of two succeeded
CheckedOutTwoItems ==
    /\ response.op = "create_order_from_cart"
    /\ response.status_code = 200
    /\ \E i \in 1..Len(orders) :
          /\ Len(orders[i].items) = 2
          /\ \E k \in 1..2 :
                /\ orders[i].items[k].quantity = 2
                /\ products[orders[i].items[k].product_id].stock_quantity
                     = MaxStock - 2

\* the user owns the order and neither status nor payment_status has moved
Payable(db, u, o) ==
    /\ o \in 1..Len(db.orders)
    /\ db.orders[o].user_id = u
    /\ db.orders[o].status = "pending"
    /\ db.orders[o].payment_status = "pending"

NoDoublePayment ==
    /\ \A u \in Users, o \in 1..Len(orders), draw \in Draws :
          (/\ orders[o].user_id = u
           /\ \/ orders[o].status # "pending"
              \/ orders[o].payment_status # "pending")
          => LET r == process_payment(State, u, o, draw)
             IN  /\ r.status_code = 400
                 /\ r.detail \in {"Order cannot be paid",
                                  "Payment has already been processed"}
                 /\ r.db = State
    /\ \A o \in 1..Len(orders) :
          Cardinality({i \in 1..Len(gateway_log) :
                         /\ gateway_log[i].order_id = o
                         /\ gateway_log[i].status = "completed"}) <= 1

\* C5 witness: a second payment was tried on an order already paid for
PaymentRejectedAfterCompleted ==
    /\ response.op = "process_payment"
    /\ response.detail = "Order cannot be paid"
    /\ \E i \in 1..Len(gateway_log) :
          /\ gateway_log[i].status = "completed"
          /\ orders[gateway_log[i].order_id].status = "paid"

\* C6: when the gateway answers completed to a payment of a payable order,
\* the order ends paid/completed with the gateway's transaction id and no
\* product's stock changes.
CompletedPaymentEffects ==
    \A u \in Users, o \in 1..Len(orders), draw \in Draws :
        (Payable(State, u, o)
           /\ gateway_response(State, o, draw).status = "completed")
        => LET r == process_payment(State, u, o, draw)
           IN  /\ r.status_code = 200
               /\ r.db.orders[o].status = "paid"
               /\ r.db.orders[o].payment_status = "completed"
               /\ r.db.orders[o].payment_transaction_id
                    = gateway_response(State, o, draw).transaction_id
               /\ r.db.products = products

\* C6 witness: a payment went through and the order carries the id of the
\* gateway's last answer
PaymentCompleted ==
    /\ response.op = "process_payment"
    /\ response.status_code = 200
    /\ gateway_log # <<>>
    /\ LET last == gateway_log[Len(gateway_log)]
       IN  /\ last.status = "completed"
           /\ orders[last.order_id].status = "paid"
           /\ orders[last.order_id].payment_status = "completed"
           /\ orders[last.order_id].payment_transaction_id
                = last.transaction_id

\* C7: the owner's cancel_order succeeds exactly on a pending or paid order:
\* it gives every product back the quantity the order holds of it and sets
\* the status to cancelled, after which a second cancel is rejected and
\* changes nothing; on a shipped, delivered or cancelled order it is
\* rejected with an invalid-state error and changes nothing.
CancelOnlyPendingOrPaid ==
    \A u \in Users, o \in 1..Len(orders) :
        orders[o].user_id = u
        => LET r == cancel_order(State, u, o)
           IN  IF orders[o].status \in {"pending", "paid"}
               THEN /\ r.status_code = 200
                    /\ \A p \in Products :
                          r.db.products[p].stock_quantity
                            = products[p].stock_quantity
                                + QtyOf(orders[o].items, p)
                    /\ r.db.orders[o].status = "cancelled"
                    /\ LET again == cancel_order(r.db, u, o)
                       IN  again.status_code = 400 /\ again.db = r.db
               ELSE /\ r.status_code = 400
                    /\ r.detail = "Order cannot be cancelled"
                    /\ r.db = State

\* C7 witness: a cancelled order was cancelled once more and refused
CancelledTwice ==
    /\ response.op = "cancel_order"
    /\ response.detail = "Order cannot be cancelled"
    /\ \E o \in 1..Len(orders) : orders[o].status = "cancelled"

\* C8: cancel_order changes no field of any order but the status of the
\* cancelled one (payment_status, transaction id, amounts and items stay)
\* and makes no gateway call.
CancelKeepsPaymentFields ==
    \A u \in Users, o \in 1..MaxOrders :
        LET r == cancel_order(State, u, o)
        IN  /\ Len(r.db.orders) = Len(orders)
            /\ \A i \in 1..Len(orders) :
                  /\ r.db.orders[i]
                       = [orders[i] EXCEPT !.status = r.db.orders[i].status]
                  /\ i # o => r.db.orders[i] = orders[i]
            /\ r.db.gateway_log = gateway_log

\* C8 witness: a paid order was cancelled and its payment is still completed
PaidOrderCancelled ==
    /\ response.op = "cancel_order"
    /\ response.status_code = 200
    /\ \E o \in 1..Len(orders) :
          /\ orders[o].status = "cancelled"
          /\ orders[o].payment_status = "completed"
          /\ orders[o].payment_transaction_id # NULL

\* C9: an admin update asking for a status that is not a listed change from
\* the order's current status (the same status included) is rejected with an
\* invalid-transition error and changes nothing, whatever else it carries.
InvalidTransitionRejected ==
    \A o \in 1..Len(orders), upd \in OrderUpdates :
        (/\ upd.status # NULL
         /\ <<orders[o].status, upd.status>> \notin AllowedStatusChanges)
        => LET r == update_order_status(State, o, upd)
           IN  /\ r.status_code = 400
               /\ r.detail = "Invalid status transition"
               /\ r.db = State

\* C9 witness: an update of a delivered order was refused
UpdateOfDeliveredRefused ==
    /\ response.op = "update_order_status"
    /\ response.detail = "Invalid status transition"
    /\ \E o \in 1..Len(orders) : orders[o].status = "delivered"

\* C10: whenever an order's status becomes cancelled, by the user's
\* cancel_order or by the admin's update_order_status, every product gets
\* back the quantity the order holds of it in the same step.
CancellationRestoresStock ==
    [][\A i \in 1..Len(orders) :
          (orders[i].status # "cancelled" /\ orders'[i].status = "cancelled")
          => \A p \in Products :
                products'[p].stock_quantity
                  = products[p].stock_quantity
                      + QtyOf(orders[i].items, p)]_vars

\* C11: every order holds total_amount = subtotal + tax_amount
\* + shipping_amount - discount_amount, where discount_amount is 0 and
\* tax_amount is a tenth of the subtotal rounded to a whole cent (either cent
\* when the tenth ends on half a cent).
OrderTotalIsSumOfParts ==
    \A o \in 1..Len(orders) :
        /\ orders[o].discount_amount = 0
        /\ 10 * orders[o].tax_amount - orders[o].subtotal \in -5..5
        /\ orders[o].total_amount
             = orders[o].subtotal + orders[o].tax_amount
                 + orders[o].shipping_amount - orders[o].discount_amount

\* C12: a successful checkout charges 10.00 for shipping exactly when the
\* cart's total is strictly below 100.00 and nothing otherwise, so a cart of
\* exactly 100.00 ships free; the stored order keeps that amount.
ShippingThreshold ==
    /\ \A u \in Users, req \in CheckoutRequests :
          LET r   == create_order_from_cart(State, u, req)
              sub == total_amount(State, get_cart(State, u))
          IN  r.status_code = 200
              => r.db.orders[Len(orders) + 1].shipping_amount
                   = (IF sub <= 9999 THEN 1000 ELSE 0)
    /\ \A o \in 1..Len(orders) :
          orders[o].shipping_amount
            = (IF orders[o].subtotal <= 9999 THEN 1000 ELSE 0)

\* C12 witness: an order of exactly 100.00 was placed and ships free
OrderOfExactlyHundredShipsFree ==
    /\ response.op = "create_order_from_cart"
    /\ response.status_code = 200
    /\ \E o \in 1..Len(orders) :
          orders[o].subtotal = 10000 /\ orders[o].shipping_amount = 0

\* C13: while a checkout that passed its checks is under way, and when it
\* fails at any statement up to and including the commit, the tables hold no
\* new order, no changed stock and every cart item; an order appears only in
\* the one step that also takes each of its items' quantities from the stock
\* and deletes the cart's items.
CheckoutIsAtomic ==
    [][/\ (\/ orders' # orders
           \/ products' # products
           \/ Len(cart_items') < Len(cart_items))
          => /\ request.op = "create_order_from_cart"
             /\ request.pc = "commit"
             /\ response'.status_code = 200
             /\ Len(orders') = Len(orders) + 1
             /\ SubSeq(orders', 1, Len(orders)) = orders
             /\ LET o == orders'[Len(orders')]
                IN  /\ o.items # <<>>
                    /\ \A p \in Products :
                          products'[p].stock_quantity
                            = products[p].stock_quantity - QtyOf(o.items, p)
                    /\ \A i \in 1..Len(cart_items') :
                          cart_items'[i].cart_id # request.cart_id
       /\ (/\ request.op = "create_order_from_cart"
           /\ request' = Idle
           /\ response'.status_code = 500)
          => UNCHANGED <<products, carts, cart_items, orders>>]_vars

\* C13 witness: a checkout failed and left no order, the full stock and the
\* two items of the cart
CheckoutFailedNothingPersisted ==
    /\ response.op = "create_order_from_cart"
    /\ response.status_code = 500
    /\ orders = <<>>
    /\ \A p \in Products : products[p].stock_quantity = MaxStock
    /\ Len(cart_items) = 2

\* C14: while the gateway is being called for an order, and after a crash
\* during that call, the stored order is pending with payment_status
\* processing.
ProcessingPersistedBeforeGateway ==
    (/\ request.op = "process_payment"
     /\ request.pc \in {"gateway", "crashed_in_gateway"})
    => /\ orders[request.order_id].status = "pending"
       /\ orders[request.order_id].payment_status = "processing"

\* C14 witness: the process crashed during the call of the gateway
CrashedDuringGatewayCall ==
    /\ request.op = "process_payment"
    /\ request.pc = "crashed_in_gateway"
    /\ orders[request.order_id].payment_status = "processing"

\* C15: the step in which the gateway's failed answer is handled commits the
\* order as pending/failed with the transaction id and gives every product
\* back the order's quantity of it, and the caller has not been answered
\* yet; the later step that reports PaymentFailed to the caller changes no
\* table.
FailureCommittedBeforeReported ==
    [][/\ (/\ request.op = "process_payment"
           /\ request.pc = "gateway"
           /\ request'.pc = "respond"
           /\ gateway_log'[Len(gateway_log')].status = "failed")
          => LET o == request.order_id
             IN  /\ response' = response
                 /\ request'.detail \in PaymentFailedDetail
                 /\ orders'[o].status = "pending"
                 /\ orders'[o].payment_status = "failed"
                 /\ orders'[o].payment_transaction_id
                      = gateway_log'[Len(gateway_log')].transaction_id
                 /\ \A p \in Products :
                       products'[p].stock_quantity
                         = products[p].stock_quantity
                             + QtyOf(orders[o].items, p)
       /\ (/\ response' # response
           /\ response'.op = "process_payment"
           /\ response'.detail \in PaymentFailedDetail)
          => /\ request.op = "process_payment"
             /\ request.pc = "respond"
             /\ orders[request.order_id].payment_status = "failed"
             /\ UNCHANGED <<products, orders>>]_vars

\* C15 witness: PaymentFailed has been reported for an order of two units
\* and the product is at its full stock
PaymentFailedReported ==
    /\ request = Idle
    /\ response.op = "process_payment"
    /\ response.detail \in PaymentFailedDetail
    /\ \E o \in 1..Len(orders) :
          /\ orders[o].payment_status = "failed"
          /\ orders[o].payment_transaction_id # NULL
          /\ \E k \in 1..Len(orders[o].items) :
                /\ orders[o].items[k].quantity = 2
                /\ products[orders[o].items[k].product_id].stock_quantity
                     = MaxStock

\* the rows of cart_items that hold product p in cart c
RowsOf(db, c, p) ==
    {i \in 1..Len(db.cart_items) :
        db.cart_items[i].cart_id = c /\ db.cart_items[i].product_id = p}

\* C16: after any sequence of cart operations and checkouts no cart holds
\* two items of one product; a successful add_to_cart of a product already
\* in the cart adds the requested quantity to that item and creates no
\* item, and a successful add of a product not yet in it creates one item.
OneItemPerProduct ==
    /\ \A c \in 1..Len(carts), p \in Products :
          Cardinality(RowsOf(State, c, p)) <= 1
    /\ \A u \in Users, p \in Products, q \in 1..MaxQty :
          LET r == add_to_cart(State, u, p, q)
              c == get_cart(r.db, u)
          IN  r.status_code = 200
              => /\ Cardinality(RowsOf(r.db, c, p)) = 1
                 /\ \A i \in RowsOf(State, c, p) :
                       /\ Len(r.db.cart_items) = Len(cart_items)
                       /\ r.db.cart_items[i].quantity
                            = cart_items[i].quantity + q
                 /\ RowsOf(State, c, p) = {}
                    => /\ Len(r.db.cart_items) = Len(cart_items) + 1
                       /\ r.db.cart_items[Len(cart_items) + 1].quantity = q

\* C16 witness: an add to an item of the cart made it larger than any
\* single request can
AddedToExistingItem ==
    /\ response.op = "add_to_cart"
    /\ response.status_code = 200
    /\ \E i \in 1..Len(cart_items) : cart_items[i].quantity > MaxQty

\* C17: after a successful add_to_cart or update_cart_item the cart item
\* carries the product's price of that moment, whatever price it carried
\* before; update_cart_item leaves the item with exactly the requested
\* quantity.
UnitPriceRefreshed ==
    \A u \in Users, p \in Products, q \in 1..MaxQty :
        /\ LET r == add_to_cart(State, u, p, q)
           IN  r.status_code = 200
               => \A i \in RowsOf(r.db, get_cart(r.db, u), p) :
                     r.db.cart_items[i].unit_price = products[p].price
        /\ LET r == update_cart_item(State, u, p, q)
           IN  r.status_code = 200
               => /\ RowsOf(r.db, get_cart(State, u), p) # {}
                  /\ \A i \in RowsOf(r.db, get_cart(State, u), p) :
                        /\ r.db.cart_items[i].unit_price = products[p].price
                        /\ r.db.cart_items[i].quantity = q

\* C17 witness: a cart item was updated while another item of the cart
\* still carries a price its product no longer has
UpdatedAfterPriceChange ==
    /\ response.op = "update_cart_item"
    /\ response.status_code = 200
    /\ \E i, j \in 1..Len(cart_items) :
          /\ cart_items[i].unit_price = 1999
          /\ products[cart_items[i].product_id].price = 1999
          /\ cart_items[j].unit_price
               # products[cart_items[j].product_id].price

\* quantity of product p the user's cart holds, 0 without a cart or an item
InCart(db, u, p) ==
    QtyOf(items(db, get_cart(db, u)), p)

\* C18 as stated: whenever the quantity in the cart plus the requested
\* quantity exceeds the product's stock, add_to_cart fails with
\* InsufficientStock and leaves the cart as it was.
AddBeyondStockIsInsufficientStock ==
    \A u \in Users, p \in Products, q \in 1..MaxQty :
        InCart(State, u, p) + q > products[p].stock_quantity
        => LET r == add_to_cart(State, u, p, q)
           IN  /\ r.status_code = 400
               /\ r.detail = "Insufficient stock"
               /\ r.db = State

\* C18 amended: for an active product, whenever the quantity in the cart
\* plus the requested quantity exceeds the product's stock, add_to_cart
\* fails with InsufficientStock and leaves every table as it was (for an
\* inactive product it fails with NotFound and leaves every table as it
\* was); after a successful add_to_cart or update_cart_item the item's
\* quantity is at most the product's stock.
AddBeyondStockRejected ==
    \A u \in Users, p \in Products, q \in 1..MaxQty :
        /\ InCart(State, u, p) + q > products[p].stock_quantity
           => LET r == add_to_cart(State, u, p, q)
              IN  /\ r.db = State
                  /\ IF products[p].is_active
                     THEN r.status_code = 400
                          /\ r.detail = "Insufficient stock"
                     ELSE r.status_code = 404
                          /\ r.detail = "Product not found or inactive"
        /\ LET r == add_to_cart(State, u, p, q)
           IN  r.status_code = 200
               => InCart(r.db, u, p) = InCart(State, u, p) + q
                  /\ InCart(r.db, u, p) <= products[p].stock_quantity
        /\ LET r == update_cart_item(State, u, p, q)
           IN  r.status_code = 200
               => InCart(r.db, u, p) = q
                  /\ InCart(r.db, u, p) <= products[p].stock_quantity

\* C18 witness: an add was refused for a quantity that fits the stock by
\* itself but not together with what the cart holds
AddRefusedForCartTotal ==
    /\ response.op = "add_to_cart"
    /\ response.detail = "Insufficient stock"
    /\ \E i \in 1..Len(cart_items) :
          LET product == products[cart_items[i].product_id]
          IN  /\ product.is_active
              /\ product.stock_quantity >= MaxQty
              /\ cart_items[i].quantity = product.stock_quantity

\* C19 as stated: clear_cart never fails, whether the user has a cart with
\* items, an empty cart or no cart at all.
ClearCartNeverFails ==
    response.op = "clear_cart" => response.status_code = 200

\* C19 amended: for a user who has a cart, with or without items,
\* clear_cart succeeds, deletes exactly the items of that cart, and a
\* second clear_cart succeeds again and changes nothing; for a user who
\* has no cart it fails with NotFound and changes nothing.
ClearCartIdempotentForExistingCart ==
    \A u \in Users :
        LET r == clear_cart(State, u)
            c == get_cart(State, u)
        IN  IF c # 0
            THEN /\ r.status_code = 200
                 /\ items(r.db, c) = <<>>
                 /\ r.db = [State EXCEPT !.cart_items =
                              SelectSeq(@, LAMBDA it : it.cart_id # c)]
                 /\ clear_cart(r.db, u) = r
            ELSE /\ r.status_code = 404
                 /\ r.detail = "Cart not found"
                 /\ r.db = State

\* C19 witness: a cart without items was cleared
EmptyCartCleared ==
    /\ response.op = "clear_cart"
    /\ response.status_code = 200
    /\ carts # <<>>
    /\ cart_items = <<>>

\* C20: process_payment, cancel_order and get_order by a user who does not
\* own the order fail with the NotFound they give for an order that does
\* not exist, make no gateway call and change no table.
ForeignOrderNotFound ==
    \A u \in Users, o \in 1..Len(orders), draw \in Draws :
        orders[o].user_id # u
        => LET missing == Len(orders) + 1
           IN  /\ process_payment(State, u, o, draw)
                    = process_payment(State, u, missing, draw)
               /\ cancel_order(State, u, o) = cancel_order(State, u, missing)
               /\ get_order(State, u, o) = get_order(State, u, missing)
               /\ process_payment(State, u, o, draw)
                    = Raise(State, 404, "Order not found")
               /\ cancel_order(State, u, o)
                    = Raise(State, 404, "Order not found")
               /\ get_order(State, u, o)
                    = Raise(State, 404, "Order not found")

\* C20 witness: a user asked to pay for another user's pending order
ForeignPaymentRefused ==
    /\ response.op = "process_payment"
    /\ response.status_code = 404
    /\ gateway_log = <<>>
    /\ \E o \in 1..Len(orders) :
          orders[o].status = "pending" /\ orders[o].payment_status = "pending"

\* what an order records of the sale: its amounts and its items
Snapshot(order) ==
    [subtotal        |-> order.subtotal,
     tax_amount      |-> order.tax_amount,
     shipping_amount |-> order.shipping_amount,
     total_amount    |-> order.total_amount,
     items           |-> order.items]

\* C21: no request that follows the checkout changes an order's subtotal,
\* tax_amount, shipping_amount, total_amount or any field of its items: not
\* an update of a product's name, sku, price, stock or activation, not a
\* cart operation, not process_payment, cancel_order or update_order_status.
OrderSnapshotNeverChanges ==
    LET Kept(r) ==
            /\ Len(r.db.orders) >= Len(orders)
            /\ \A o \in 1..Len(orders) :
                  Snapshot(r.db.orders[o]) = Snapshot(orders[o])
    IN  /\ \A p \in Products :
              /\ \A upd \in CatalogUpdates \cup PriceUpdates
                                \cup ProductUpdates :
                    Kept(update_product(State, p, upd))
              /\ \A n \in 0..MaxStock : Kept(update_stock(State, p, n))
        /\ \A u \in Users :
              /\ \A p \in Products :
                    /\ \A q \in 1..MaxQty :
                          /\ Kept(add_to_cart(State, u, p, q))
                          /\ Kept(update_cart_item(State, u, p, q))
                    /\ Kept(remove_from_cart(State, u, p))
              /\ Kept(clear_cart(State, u))
              /\ \A req \in CheckoutRequests :
                    Kept(create_order_from_cart(State, u, req))
              /\ \A o \in 1..MaxOrders :
                    /\ \A draw \in Draws :
                          Kept(process_payment(State, u, o, draw))
                    /\ Kept(cancel_order(State, u, o))
        /\ \A o \in 1..MaxOrders, upd \in OrderUpdates :
              Kept(update_order_status(State, o, upd))

\* C21 witness: a product was renamed, renumbered and repriced after it was
\* ordered, and the order item still names the product as it was sold
ProductChangedAfterOrder ==
    /\ response.op = "update_product"
    /\ response.status_code = 200
    /\ \E o \in 1..Len(orders) :
          \E k \in 1..Len(orders[o].items) :
             LET item    == orders[o].items[k]
                 product == products[item.product_id]
             IN  /\ product.name = "renamed"
                 /\ item.product_name # product.name
                 /\ item.product_sku # product.sku
                 /\ item.unit_price # product.price

\* C22: whatever cart operations, checkouts, payments with either outcome,
\* cancellations, admin status updates and admin stock updates run one after
\* another, no product's stock_quantity is below zero.
StockNeverNegative ==
    \A p \in Products : products[p].stock_quantity >= 0

\* C22 witness: a checkout took the last units of a product whose stock an
\* admin had lowered
LastUnitsCheckedOut ==
    /\ response.op = "create_order_from_cart"
    /\ response.status_code = 200
    /\ \E o \in 1..Len(orders) :
          \E k \in 1..Len(orders[o].items) :
             /\ orders[o].items[k].quantity < MaxStock
             /\ products[orders[o].items[k].product_id].stock_quantity = 0

\* C25: update_order_status sets shipped_at when it moves an order to
\* shipped and delivered_at when it moves it to delivered, an update that
\* asks for no status and every payment and cancellation leave both as they
\* are; so shipped_at is set exactly on shipped and delivered orders and
\* delivered_at exactly on delivered ones.
TimestampsFollowStatus ==
    /\ \A o \in 1..Len(orders) :
          /\ orders[o].shipped_at # NULL
               <=> orders[o].status \in {"shipped", "delivered"}
          /\ orders[o].delivered_at # NULL
               <=> orders[o].status = "delivered"
    /\ \A o \in 1..Len(orders), upd \in OrderUpdates :
          LET r == update_order_status(State, o, upd)
          IN  r.status_code = 200
              => /\ r.db.orders[o].shipped_at
                      = (IF upd.status = "shipped" THEN "now"
                         ELSE orders[o].shipped_at)
                 /\ r.db.orders[o].delivered_at
                      = (IF upd.status = "delivered" THEN "now"
                         ELSE orders[o].delivered_at)
    /\ \A u \in Users, o \in 1..Len(orders), draw \in Draws :
          LET Stamps(db) == <<db.orders[o].shipped_at,
                              db.orders[o].delivered_at>>
          IN  /\ Stamps(process_payment(State, u, o, draw).db)
                   = Stamps(State)
              /\ Stamps(cancel_order(State, u, o).db) = Stamps(State)

\* C25 witness: an order was just marked delivered and carries both times
DeliveredWithBothTimes ==
    /\ response.op = "update_order_status"
    /\ response.status_code = 200
    /\ \E o \in 1..Len(orders) :
          /\ orders[o].status = "delivered"
          /\ orders[o].shipped_at = "now"
          /\ orders[o].delivered_at = "now"

\* C26: after any sequence of create_product and update_product requests
\* every product's compare_price is absent or strictly above its price (a
\* request that would leave compare_price <= price having been rejected
\* without changing the product).
ComparePriceAbovePrice ==
    \A p \in DOMAIN products :
        \/ products[p].compare_price = <<>>
        \/ products[p].compare_price[1] > products[p].price

\* C27: PaymentService.process_payment answers FAILED with the message
\* 'Unsupported payment method' for a method outside PAYMENT_METHODS;
\* otherwise it answers COMPLETED exactly when the first draw is below the
\* method's success_rate and FAILED otherwise; it never answers pending,
\* processing or refunded, and the amount it returns is the requested one.
GatewayOutcomeFollowsDraw ==
    response.op = "PaymentService.process_payment" =>
        LET req == response.payment_request
            res == response.payment_response
        IN  /\ res.status \in {"completed", "failed"}
            /\ res.amount = req.amount
            /\ req.payment_method \notin DOMAIN PAYMENT_METHODS =>
                  /\ res.status = "failed"
                  /\ res.message = "Unsupported payment method"
            /\ req.payment_method \in DOMAIN PAYMENT_METHODS =>
                  /\ res.status = "completed"
                        <=> response.draw[1]
                              < PAYMENT_METHODS[req.payment_method]
                  /\ res.message # "Unsupported payment method"

\* the draw equal to the success rate has been refused
DrawAtSuccessRateFailed ==
    /\ response.op = "PaymentService.process_payment"
    /\ response.payment_request.payment_method = "credit_card"
    /\ response.draw[1] = 95
    /\ response.payment_response.status = "failed"

\* C28: over checkouts, payments with either outcome and cancellations, with
\* no admin stock edit, every product's stock_quantity is at most its initial
\* value and equals the initial value minus the quantities held by the
\* orders whose stock has not been released (by a failed payment or a
\* cancellation): an order's quantities return to stock at most once.
StockReleasedAtMostOnce ==
    \A p \in Products :
        /\ products[p].stock_quantity <= MaxStock
        /\ products[p].stock_quantity =
              MaxStock
              - SumSeq([o \in 1..Len(orders) |->
                          IF \/ orders[o].status = "cancelled"
                             \/ orders[o].payment_status = "failed"
                          THEN 0
                          ELSE QtyOf(orders[o].items, p)])

\* C29: update_order_status moves an order to shipped only if the order
\* satisfies can_be_shipped at that moment (status paid and payment_status
\* completed), so that an order whose payment never completed is never
\* shipped or delivered.
ShippedOnlyWhenShippable ==
    [][\A o \in 1..Len(orders) :
          (/\ o <= Len(orders')
           /\ orders[o].status # "shipped"
           /\ orders'[o].status = "shipped")
          => can_be_shipped(orders[o])]_vars

\* an order left behind by a failed payment
PaymentHasFailed(order) ==
    order.status = "pending" /\ order.payment_status = "failed"

\* C30 as stated: after a failed payment the order is pending with
\* payment_status failed, every later process_payment of its user is
\* rejected with 'Payment has already been processed' without a gateway
\* call, and as long as no admin overwrites payment_status the order never
\* becomes paid and the user can only cancel it.
FailedOrderNeverPaidUnlessPaymentStatusOverwritten ==
    [][\A o \in 1..Len(orders) :
          (/\ PaymentHasFailed(orders[o])
           /\ orders'[o].payment_status = orders[o].payment_status)
          => orders'[o].status # "paid"]_vars

\* C30 amended: after a failed payment the order is pending with
\* payment_status failed and every later process_payment of its user is
\* rejected with 'Payment has already been processed' without a gateway
\* call; only cancel_order and the admin's update_order_status change such
\* an order, cancel_order by cancelling it, and only update_order_status
\* can make it paid.
FailedOrderPaidOnlyByAdmin ==
    [][/\ \A o \in 1..Len(orders), draw \in Draws :
            PaymentHasFailed(orders[o]) =>
                LET r == process_payment(State, orders[o].user_id, o, draw)
                IN  /\ r.status_code = 400
                    /\ r.detail = "Payment has already been processed"
                    /\ r.db = State
       /\ (/\ response'.op = "process_payment"
           /\ response'.detail \in PaymentFailedDetail)
          => \E o \in 1..Len(orders') : PaymentHasFailed(orders'[o])
       /\ \A o \in 1..Len(orders) :
            (PaymentHasFailed(orders[o]) /\ orders'[o] # orders[o]) =>
                /\ response'.op \in {"cancel_order", "update_order_status"}
                /\ response'.op = "cancel_order" =>
                      orders'[o] = [orders[o] EXCEPT !.status = "cancelled"]
                /\ orders'[o].status = "paid" =>
                      response'.op = "update_order_status"]_vars

\* C30 witness: the user's second attempt to pay was refused
SecondPaymentRefused ==
    /\ response.op = "process_payment"
    /\ response.detail = "Payment has already been processed"
    /\ \E o \in 1..Len(orders) : PaymentHasFailed(orders[o])
    /\ Len(gateway_log) = 1

\* C24: every user has at most one cart in every reachable state, also when
\* two add_to_cart requests of a user without a cart run at the same time.
OneCartPerUser ==
    \A u \in Users :
        Cardinality({c \in 1..Len(carts) : carts[c].user_id = u}) <= 1

\* worker s commits its checkout in this step
Commits(s) ==
    /\ sessions[s].op = "create_order_from_cart"
    /\ sessions[s].pc = "commit"
    /\ sessions'[s] = Idle

\* the quantity of product p in the order worker s is about to commit
Ordered(s, p) ==
    QtyOf(sessions[s].work.orders[Len(sessions[s].work.orders)].items, p)

\* the orders of other users for product p committed since worker s
\* validated its cart
Overtaking(s, p) ==
    {o \in (Len(sessions[s].read.orders) + 1)..Len(orders) :
        /\ orders[o].user_id # sessions[s].user_id
        /\ QtyOf(orders[o].items, p) > 0}

\* C23 as stated: when two checkouts of different users for one product
\* both pass validation before either commits, both orders are created and
\* the stock ends below (initial - either quantity), below zero when the
\* stock covered only one of them.
RacingCheckoutsBothDecrement ==
    [][\A s \in Sessions, p \in Products :
          (Commits(s) /\ Ordered(s, p) > 0 /\ Overtaking(s, p) # {})
          => LET initial == sessions[s].read.products[p].stock_quantity
             IN  /\ Len(orders') = Len(orders) + 1
                 /\ products'[p].stock_quantity < initial - Ordered(s, p)
                 /\ \A o \in Overtaking(s, p) :
                       products'[p].stock_quantity
                         < initial - QtyOf(orders[o].items, p)]_vars

\* C23 amended: nothing protects the stock check and the decrement of
\* create_order_from_cart against each other; when two checkouts of
\* different users for one product both pass validation before either
\* commits, both orders are created, and the later commit writes the stock
\* it read at validation minus its own quantity over the earlier
\* decrement: the stock ends at (initial - the later quantity), never
\* below zero, although more was sold.
RacingCheckoutOverwritesStock ==
    [][\A s \in Sessions, p \in Products :
          (Commits(s) /\ Ordered(s, p) > 0)
          => LET initial == sessions[s].read.products[p].stock_quantity
             IN  /\ Len(orders') = Len(orders) + 1
                 /\ \A o \in 1..Len(orders) : orders'[o] = orders[o]
                 /\ orders'[Len(orders')].user_id = sessions[s].user_id
                 /\ products'[p].stock_quantity = initial - Ordered(s, p)
                 /\ products'[p].stock_quantity >= 0]_vars

\* C23 witness: two users bought more of a product than there was, and the
\* stock shows the second order only
OversoldByRace ==
    \E p \in Products :
        /\ Len(orders) = 2
        /\ orders[1].user_id # orders[2].user_id
        /\ QtyOf(orders[1].items, p) > 0
        /\ QtyOf(orders[1].items, p) + QtyOf(orders[2].items, p) > MaxStock
        /\ products[p].stock_quantity
              = MaxStock - QtyOf(orders[2].items, p)

====
